---- MODULE Spec2Model ----
(***************************************************************************)
(* Model of cargo-ndk's command line driver (src/cli.rs): kit discovery    *)
(* (derive_ndk_path), and run: argument handling, target and platform      *)
(* resolution, the per-target build loop and the collection of the built   *)
(* shared libraries.                                                        *)
(*                                                                         *)
(* Option<T> is modelled as a sequence of length at most one, a path as    *)
(* the sequence of its components.                                          *)
(***************************************************************************)
EXTENDS Integers, Sequences, FiniteSets, TLC

\* ------------------------------------------------------------------ bounds
MaxTargets == 2      \* longest target list of the command line
MaxConfigTargets == 1  \* longest target list of the configuration
MaxChildren == 3     \* most entries in the Android Studio ndk directory
MaxFiles == 2        \* most entries in a target's build output directory

\* ------------------------------------------------------------------ Option
None == <<>>
Some(x) == <<x>>
IsSome(o) == o # <<>>
Unwrap(o) == o[1]

\* PathBuf::join with a relative component
Join(p, c) == Append(p, c)

\* ------------------------------------------------------- the environment
VarNames == {"ANDROID_NDK_HOME", "NDK_HOME", "ANDROID_SDK_HOME"}

\* values the environment variables may hold
EnvPaths == {<<"sdk">>, <<"sdk", "ndk-bundle">>}

\* pathos::user::data_dir() / local_dir()
base_dir == <<"data">>

ndk_dir == Join(Join(Join(base_dir, "Android"), "sdk"), "ndk")

\* names of the entries the ndk directory may hold
ChildNames == {"21.0.0", "22.0.0", "23.1.1", "9.0.0"}

\* the bytes of a file name ('.' = 46, '0' = 48 ... '9' = 57)
Bytes(name) ==
    CASE name = "21.0.0" -> <<50, 49, 46, 48, 46, 48>>
      [] name = "22.0.0" -> <<50, 50, 46, 48, 46, 48>>
      [] name = "23.1.1" -> <<50, 51, 46, 49, 46, 49>>
      [] name = "9.0.0"  -> <<57, 46, 48, 46, 48>>

RECURSIVE BytesLess(_, _)
\* Ord for OsStr: lexicographic on the bytes
BytesLess(a, b) ==
    IF b = <<>> THEN FALSE
    ELSE IF a = <<>> THEN TRUE
    ELSE IF a[1] # b[1] THEN a[1] < b[1]
    ELSE BytesLess(Tail(a), Tail(b))

RECURSIVE PathLess(_, _)
\* Ord for PathBuf: lexicographic on the components
PathLess(p, q) ==
    IF q = <<>> THEN FALSE
    ELSE IF p = <<>> THEN TRUE
    ELSE IF p[1] # q[1] THEN BytesLess(Bytes(p[1]), Bytes(q[1]))
    ELSE PathLess(Tail(p), Tail(q))

RECURSIVE Sort(_)
\* Vec::sort of a vector of distinct paths
Sort(S) ==
    IF S = {} THEN <<>>
    ELSE LET m == CHOOSE x \in S : \A y \in S : ~PathLess(y, x)
         IN  <<m>> \o Sort(S \ {m})

\* Vec::reverse left out
Reverse_skipped(s) == s

\* Vec::reverse
Reverse(s) == [k \in 1..Len(s) |-> s[Len(s) + 1 - k]]

\* Vec::first().cloned()
First(s) == IF s = <<>> THEN None ELSE Some(s[1])

VARIABLES
    env,        \* environment variable -> Option<path>
    existing,   \* the paths for which Path::exists() holds
    listing,    \* read_dir(ndk_dir): [ok, entries, bad]
    probes,     \* what derive_ndk_path consulted, in order
    pc,         \* position in run (or in the stand-alone derive_ndk_path call)
    args,       \* the parsed Args, with is_release
    ndk_home,   \* Option<PathBuf> returned by derive_ndk_path
    config,     \* Option<Config> returned by crate::meta::config
    targets,    \* the resolved target list
    platform,   \* the resolved platform level
    i,          \* index of the next target of the build loop
    j,          \* index of the next target of the collection loop
    so_files,   \* the .so files of the current target not yet copied
    buildLog,   \* the calls of crate::cargo::run, in order
    dirs,       \* the directories created by create_dir_all
    listed,     \* the build output directories read, in order
    copies,     \* the calls of std::fs::copy, in order
    strips,     \* the calls of crate::cargo::strip, in order
    strip_failed, \* whether a call of crate::cargo::strip has failed
    outcome,    \* "running", "exit", "return" or "panic"
    cause,      \* which step ended the run, "none" while it runs
    exitCode    \* the argument of std::process::exit

envVars == <<env, existing, listing>>
runVars == <<args, config, targets, platform, i, j, so_files, buildLog, dirs,
             listed, copies, strips, strip_failed, outcome, cause, exitCode>>
vars == <<env, existing, listing, probes, pc, ndk_home, args, config, targets,
          platform, i, j, so_files, buildLog, dirs, listed, copies, strips,
          strip_failed, outcome, cause, exitCode>>

\* read_dir(&ndk_dir).ok()? ... .flat_map(Result::ok).map(|x| x.path())
ReadNdkDir(l) ==
    IF ~l.ok THEN None
    ELSE Some({Join(ndk_dir, n) : n \in l.entries \ l.bad})

\* line 38 without the check
exists_unchecked(path, ex) == TRUE

\* line 38: path.exists()
exists(path, ex) == path \in ex

\* derive_ndk_path with NDK_HOME read before ANDROID_NDK_HOME
derive_ndk_path_legacy_first(e, ex, l) ==
    IF IsSome(e["NDK_HOME"]) THEN
        [path |-> Some(Unwrap(e["NDK_HOME"])),
         probes |-> <<"var NDK_HOME">>]
    ELSE IF IsSome(e["ANDROID_NDK_HOME"]) THEN
        [path |-> Some(Unwrap(e["ANDROID_NDK_HOME"])),
         probes |-> <<"var NDK_HOME", "var ANDROID_NDK_HOME">>]
    ELSE
      LET sdk == e["ANDROID_SDK_HOME"]
          p3 == <<"var NDK_HOME", "var ANDROID_NDK_HOME", "var ANDROID_SDK_HOME">>
          p3e == IF IsSome(sdk) THEN Append(p3, "exists ndk-bundle") ELSE p3
      IN
        IF IsSome(sdk) /\ exists(Join(Unwrap(sdk), "ndk-bundle"), ex) THEN
            [path |-> Some(Join(Unwrap(sdk), "ndk-bundle")), probes |-> p3e]
        ELSE IF exists(ndk_dir, ex) THEN
            LET rd == ReadNdkDir(l)
                p4 == p3e \o <<"exists ndk_dir", "read_dir ndk_dir">>
            IN  IF rd = None THEN [path |-> None, probes |-> p4]
                ELSE [path |-> First(Reverse(Sort(Unwrap(rd)))), probes |-> p4]
        ELSE [path |-> None, probes |-> Append(p3e, "exists ndk_dir")]

\* derive_ndk_path, with the probes it makes
derive_ndk_path(e, ex, l) ==
    IF IsSome(e["ANDROID_NDK_HOME"]) THEN
        [path |-> Some(Unwrap(e["ANDROID_NDK_HOME"])),
         probes |-> <<"var ANDROID_NDK_HOME">>]
    ELSE IF IsSome(e["NDK_HOME"]) THEN
        [path |-> Some(Unwrap(e["NDK_HOME"])),
         probes |-> <<"var ANDROID_NDK_HOME", "var NDK_HOME">>]
    ELSE
      LET sdk == e["ANDROID_SDK_HOME"]
          p3 == <<"var ANDROID_NDK_HOME", "var NDK_HOME", "var ANDROID_SDK_HOME">>
          p3e == IF IsSome(sdk) THEN Append(p3, "exists ndk-bundle") ELSE p3
      IN
        IF IsSome(sdk) /\ exists(Join(Unwrap(sdk), "ndk-bundle"), ex) THEN
            [path |-> Some(Join(Unwrap(sdk), "ndk-bundle")), probes |-> p3e]
        ELSE IF exists(ndk_dir, ex) THEN
            LET rd == ReadNdkDir(l)
                p4 == p3e \o <<"exists ndk_dir", "read_dir ndk_dir">>
            IN  IF rd = None THEN [path |-> None, probes |-> p4]
                ELSE [path |-> First(Reverse(Sort(Unwrap(rd)))), probes |-> p4]
        ELSE [path |-> None, probes |-> Append(p3e, "exists ndk_dir")]

\* ------------------------------------------------ environments considered
\* ok: read_dir succeeds; entries: the children of the directory; bad: the
\* children whose directory entry cannot be read
Listings ==
    {l \in [ok : BOOLEAN, entries : SUBSET ChildNames, bad : SUBSET ChildNames] :
        /\ Cardinality(l.entries) <= MaxChildren
        /\ l.bad \subseteq l.entries
        /\ (~l.ok => l.bad = {})}

NoDir == [ok |-> FALSE, entries |-> {}, bad |-> {}]

EnvInit ==
    /\ env \in [VarNames -> {None} \cup {Some(p) : p \in EnvPaths}]
    /\ existing \in SUBSET ({Join(p, "ndk-bundle") : p \in EnvPaths} \cup {ndk_dir})
    /\ listing \in Listings
    /\ (ndk_dir \notin existing => listing = NoDir)

\* ------------------------------------------------------------- the inputs
\* crate::meta::Target, by display name
Targets == {"arm64-v8a", "x86"}

\* Target::triple
Triple(t) ==
    CASE t = "arm64-v8a" -> "aarch64-linux-android"
      [] t = "x86" -> "i686-linux-android"

TargetLists == UNION {[1..n -> Targets] : n \in 0..MaxTargets}

ConfigTargetLists == UNION {[1..n -> Targets] : n \in 0..MaxConfigTargets}

\* values of --platform and of the configuration's platform
CliPlatforms == {None, Some(21)}
ConfigPlatforms == {16, 21}

\* value of --output-dir
OutputDirs == {None, Some(<<"jniLibs">>)}

\* metadata.target_directory
out_dir == <<"target">>

\* what Args::parse_args can return on success, with is_release
ArgsSet ==
    [target : TargetLists, platform : CliPlatforms, output_dir : OutputDirs,
     is_release : BOOLEAN]

NoArgs == [target |-> <<>>, platform |-> None, output_dir |-> None,
           is_release |-> FALSE]

\* what crate::meta::config can return on success
ConfigSet == [targets : ConfigTargetLists, platform : ConfigPlatforms]

\* ExitStatus::code() of a finished build: Some(code), or None when the
\* build was ended by a signal
StatusCodes == {Some(0), Some(1), Some(101), None}

\* Option::unwrap_or
unwrap_or(o, d) == IF o = None THEN d ELSE o[1]

\* line 152 with every failure mapped to 1
code_of_flattened(status) == IF status = Some(0) THEN 0 ELSE 1

\* line 152 with a missing code taken for success
code_of_default_zero(status) == unwrap_or(status, 0)

\* line 152: status.code().unwrap_or(-1)
code_of(status) == unwrap_or(status, -1)

\* line 154 testing for a positive code
failed_positive(code) == code > 0

\* line 154: code != 0
failed(code) == code # 0

\* lines 100-112 with the None arm falling through
kit_missing_ignored(o) == FALSE

\* lines 100-112: the None arm of the match on derive_ndk_path()
kit_missing(o) == o = None

\* names of the entries a build output directory may hold
FileNames == {"libfoo.so", "libbar.so", "libfoo.a", "so"}

\* Path::extension of a file name
extension(name) ==
    CASE name = "libfoo.so" -> Some("so")
      [] name = "libbar.so" -> Some("so")
      [] name = "libfoo.a" -> Some("a")
      [] name = "so" -> None

FileSets == {s \in SUBSET FileNames : Cardinality(s) <= MaxFiles}

\* ----------------------------------------------------------------- run
RunEnvInit ==
    /\ EnvInit
    /\ env["ANDROID_NDK_HOME"] \in {None, Some(<<"sdk">>)}
    /\ env["NDK_HOME"] = None
    /\ env["ANDROID_SDK_HOME"] = None
    /\ existing \subseteq {ndk_dir}
    /\ (ndk_dir \in existing =>
          listing = [ok |-> TRUE, entries |-> {"23.1.1"}, bad |-> {}])

RunInit ==
    /\ probes = <<>>
    /\ ndk_home = None
    /\ args = NoArgs
    /\ config = None
    /\ targets = <<>>
    /\ platform = 0
    /\ i = 1
    /\ j = 1
    /\ so_files = {}
    /\ buildLog = <<>>
    /\ dirs = {}
    /\ listed = <<>>
    /\ copies = <<>>
    /\ strips = <<>>
    /\ strip_failed = FALSE
    /\ outcome = "running"
    /\ cause = "none"
    /\ exitCode = 0

Init ==
    /\ RunEnvInit
    /\ RunInit
    /\ pc = "start"

\* std::process::exit(code)
Exit(code) ==
    /\ outcome' = "exit"
    /\ exitCode' = code
    /\ pc' = "done"

\* return from run
Return ==
    /\ outcome' = "return"
    /\ pc' = "done"
    /\ UNCHANGED exitCode

\* a failed unwrap or expect
Panic ==
    /\ outcome' = "panic"
    /\ pc' = "done"
    /\ UNCHANGED exitCode

\* line 119: std::process::exit(1)
ConfigExitCode == 1

\* line 89 exiting with the code of line 119
ParseExitCode_as_config == ConfigExitCode

\* line 89: std::process::exit(2)
ParseExitCode == 2

\* lines 72-91: usage, or Args::parse_args
Start ==
    /\ pc = "start"
    /\ \/ /\ Exit(0)                         \* no argument, -h, --help, args.help
          /\ cause' = "usage"
          /\ UNCHANGED args
       \/ /\ Exit(ParseExitCode)             \* parse error
          /\ cause' = "parse"
          /\ UNCHANGED args
       \/ /\ \E a \in ArgsSet : args' = a
          /\ pc' = "metadata"
          /\ UNCHANGED <<outcome, exitCode, cause>>
    /\ UNCHANGED <<envVars, probes, ndk_home, config, targets, platform, i, j,
                   so_files, buildLog, dirs, listed, copies, strips, strip_failed>>

\* lines 93-96: MetadataCommand ... exec().unwrap()
Metadata ==
    /\ pc = "metadata"
    /\ \/ Panic /\ cause' = "metadata"
       \/ /\ pc' = "kit"
          /\ UNCHANGED <<outcome, exitCode, cause>>
    /\ UNCHANGED <<envVars, probes, ndk_home, args, config, targets, platform,
                   i, j, so_files, buildLog, dirs, listed, copies, strips, strip_failed>>

\* lines 100-112: derive_ndk_path, return when there is no kit
LocateKit ==
    /\ pc = "kit"
    /\ LET r == derive_ndk_path(env, existing, listing)
       IN  /\ ndk_home' = r.path
           /\ probes' = probes \o r.probes
           /\ IF kit_missing(r.path)
              THEN Return /\ cause' = "kit"
              ELSE /\ pc' = "config"
                   /\ UNCHANGED <<outcome, exitCode, cause>>
    /\ UNCHANGED <<envVars, args, config, targets, platform, i, j, so_files,
                   buildLog, dirs, listed, copies, strips, strip_failed>>

\* lines 123-128 with the two lists merged
resolve_targets_merged(a, c) == a.target \o c.targets

\* lines 123-128: command line targets, else the configuration's
resolve_targets(a, c) ==
    IF a.target # <<>> THEN a.target ELSE c.targets

\* lines 130-131 without the command line override
resolve_platform_config_only(a, c) == c.platform

\* lines 130-131: command line platform, else the configuration's
resolve_platform(a, c) == unwrap_or(a.platform, c.platform)

\* lines 133-135 left out
output_dir_requested_never(a) == FALSE

\* line 133: if let Some(output_dir) = args.output_dir.as_ref()
output_dir_requested(a) == IsSome(a.output_dir)

\* std::fs::create_dir_all: the directory and every missing ancestor
create_dir_all(ds, p) == ds \cup {SubSeq(p, 1, k) : k \in 1..Len(p)}

\* lines 114-135: current_dir, crate::meta::config, the resolution of targets
\* and platform, and the creation of the output directory
Configure ==
    /\ pc = "config"
    /\ \/ /\ Panic                            \* current_dir could not be resolved
          /\ cause' = "cwd"
          /\ UNCHANGED <<config, targets, platform, dirs>>
       \/ /\ Exit(ConfigExitCode)             \* crate::meta::config failed
          /\ cause' = "config"
          /\ UNCHANGED <<config, targets, platform, dirs>>
       \/ \E c \in ConfigSet :
            /\ config' = Some(c)
            /\ targets' = resolve_targets(args, c)
            /\ platform' = resolve_platform(args, c)
            /\ IF output_dir_requested(args)
               THEN \/ /\ dirs' = create_dir_all(dirs, Unwrap(args.output_dir))
                       /\ pc' = "build"
                       /\ UNCHANGED <<outcome, exitCode, cause>>
                    \/ /\ Panic               \* failed to create output directory
                       /\ cause' = "mkdir"
                       /\ UNCHANGED dirs
               ELSE /\ pc' = "build"
                    /\ UNCHANGED <<dirs, outcome, exitCode, cause>>
    /\ UNCHANGED <<envVars, probes, ndk_home, args, i, j, so_files, buildLog,
                   listed, copies, strips, strip_failed>>

\* line 147 iterating the targets from the last to the first
nth_target_reversed(ts, k) == ts[Len(ts) + 1 - k]

\* line 147: the k-th item of targets.iter()
nth_target(ts, k) == ts[k]

\* lines 151 and 191 with the kit looked up again at each call
kit_path_reprobed(home, e, ex, l) == derive_ndk_path(e, ex, l).path

\* lines 151 and 191: &ndk_home, whatever the environment is by then
kit_path_passed(home, e, ex, l) == home

\* lines 147-160: one iteration of the build loop
Build ==
    /\ pc = "build"
    /\ i <= Len(targets)
    /\ \E status \in StatusCodes :
         LET target == nth_target(targets, i)
             triple == Triple(target)
             code == code_of(status)
         IN  /\ buildLog' = Append(buildLog,
                    [target |-> target, triple |-> triple,
                     ndk_home |-> kit_path_passed(ndk_home, env, existing, listing),
                     platform |-> platform, status |-> status])
             /\ IF failed(code)
                THEN Exit(code) /\ cause' = "build" /\ UNCHANGED i
                ELSE /\ i' = i + 1
                     /\ UNCHANGED <<pc, outcome, exitCode, cause>>
    /\ UNCHANGED <<envVars, probes, ndk_home, args, config, targets, platform,
                   j, so_files, dirs, listed, copies, strips, strip_failed>>

\* lines 160-165 and 194-195: the build loop is over
AfterBuilds ==
    /\ pc = "build"
    /\ i > Len(targets)
    /\ IF IsSome(args.output_dir)
       THEN /\ pc' = "collect"
            /\ UNCHANGED <<outcome, exitCode, cause>>
       ELSE Return /\ cause' = "finished"
    /\ UNCHANGED <<envVars, probes, ndk_home, args, config, targets, platform,
                   i, j, so_files, buildLog, dirs, listed, copies, strips, strip_failed>>

\* line 168 with the triple in place of the display name
arch_output_dir_triple(t) == Join(Unwrap(args.output_dir), Triple(t))

\* line 168
arch_output_dir(t) == Join(Unwrap(args.output_dir), t)

\* lines 171-174
target_path(t) ==
    Join(Join(out_dir, Triple(t)), IF args.is_release THEN "release" ELSE "debug")

\* lines 178-180 with a failed listing taken for an empty one
read_failed_ignored(rd) == FALSE

\* lines 178-180: read_dir(&dir).ok().unwrap()
read_failed(rd) == rd = None

\* lines 181-184: the entries of the listing with the extension "so"
so_files_of(rd) == {f \in unwrap_or(rd, {}) : extension(f) = Some("so")}

\* lines 167-184: the destination of a target and the listing of its .so files
CollectTarget ==
    /\ pc = "collect"
    /\ j <= Len(targets)
    /\ LET target == targets[j] IN
       \/ /\ Panic                            \* create_dir_all failed
          /\ cause' = "subdir"
          /\ UNCHANGED <<dirs, listed, so_files, j>>
       \/ /\ dirs' = create_dir_all(dirs, arch_output_dir(target))
          /\ \E rd \in {None} \cup {Some(entries) : entries \in FileSets} :
               /\ listed' = Append(listed,
                      [dir |-> target_path(target), ok |-> rd # None])
               /\ IF read_failed(rd)
                  THEN /\ Panic
                       /\ cause' = "list"
                       /\ UNCHANGED <<so_files, j>>
                  ELSE LET so == so_files_of(rd)
                       IN  /\ so_files' = so
                           /\ IF so = {}
                              THEN j' = j + 1 /\ pc' = "collect"
                              ELSE j' = j /\ pc' = "copy"
                           /\ UNCHANGED <<outcome, exitCode, cause>>
    /\ UNCHANGED <<envVars, probes, ndk_home, args, config, targets, platform,
                   i, buildLog, copies, strips, strip_failed>>

\* line 189 with the result of the copy dropped
copy_failed_ignored(copied) == FALSE

\* line 189: std::fs::copy(so_file, &dest).unwrap()
copy_failed(copied) == ~copied

\* line 191 with the result of strip unwrapped
strip_ignored_only_ok(stripped) == stripped

\* line 191: let _ = crate::cargo::strip(..), whatever it returns
strip_ignored(stripped) == TRUE

\* lines 186-192: the copy and the strip of one .so file
CopyStrip ==
    /\ pc = "copy"
    /\ so_files # {}
    /\ \E so_file \in so_files, copied \in BOOLEAN, stripped \in BOOLEAN :
         LET target == targets[j]
             src == Join(target_path(target), so_file)
             dest == Join(arch_output_dir(target), so_file)
         IN  /\ copies' = Append(copies, [src |-> src, dest |-> dest, ok |-> copied])
             /\ IF copy_failed(copied)
                THEN /\ Panic
                     /\ cause' = "copy"
                     /\ UNCHANGED <<so_files, strips, strip_failed, j>>
                ELSE /\ strips' = Append(strips,
                          [ndk_home |-> kit_path_passed(ndk_home, env, existing, listing),
                           triple |-> Triple(target), dest |-> dest])
                     /\ strip_failed' = (strip_failed \/ ~stripped)
                     /\ IF strip_ignored(stripped)
                        THEN /\ so_files' = so_files \ {so_file}
                             /\ IF so_files' = {}
                                THEN j' = j + 1 /\ pc' = "collect"
                                ELSE j' = j /\ pc' = "copy"
                             /\ UNCHANGED <<outcome, exitCode, cause>>
                        ELSE /\ Panic
                             /\ cause' = "strip"
                             /\ UNCHANGED <<so_files, j>>
    /\ UNCHANGED <<envVars, probes, ndk_home, args, config, targets, platform,
                   i, buildLog, dirs, listed>>

\* line 195: the collection loop is over
Finish ==
    /\ pc = "collect"
    /\ j > Len(targets)
    /\ Return
    /\ cause' = "finished"
    /\ UNCHANGED <<envVars, probes, ndk_home, args, config, targets, platform,
                   i, j, so_files, buildLog, dirs, listed, copies, strips, strip_failed>>

Next ==
    \/ Start
    \/ Metadata
    \/ LocateKit
    \/ Configure
    \/ Build
    \/ AfterBuilds
    \/ CollectTarget
    \/ CopyStrip
    \/ Finish

Spec == Init /\ [][Next]_vars

\* --------------------------------------- derive_ndk_path called on its own
InitLocate ==
    /\ EnvInit
    /\ RunInit
    /\ pc = "call"

Derive ==
    /\ pc = "call"
    /\ LET r == derive_ndk_path(env, existing, listing)
       IN  /\ ndk_home' = r.path
           /\ probes' = r.probes
    /\ pc' = "returned"
    /\ UNCHANGED <<envVars, runVars>>

NextLocate == Derive

SpecLocate == InitLocate /\ [][NextLocate]_vars

\* ------------------------- run while the environment changes under it
\* the environments of RunEnvInit
RunEnvs ==
    {[env |-> [v \in VarNames |-> IF v = "ANDROID_NDK_HOME" THEN x ELSE None],
      existing |-> ex,
      listing |-> IF ndk_dir \in ex
                  THEN [ok |-> TRUE, entries |-> {"23.1.1"}, bad |-> {}]
                  ELSE NoDir] :
        x \in {None, Some(<<"sdk">>)}, ex \in SUBSET {ndk_dir}}

InitChange ==
    /\ Init
    /\ IsSome(env["ANDROID_NDK_HOME"])
    /\ ndk_dir \in existing

\* once the kit has been looked up, somebody else unsets ANDROID_NDK_HOME
\* and keeps or removes the ndk directory
EnvChange ==
    /\ pc \in {"config", "build", "collect", "copy"}
    /\ IsSome(env["ANDROID_NDK_HOME"])
    /\ \E e \in RunEnvs :
         /\ e.env["ANDROID_NDK_HOME"] = None
         /\ env' = e.env
         /\ existing' = e.existing
         /\ listing' = e.listing
    /\ UNCHANGED <<probes, pc, ndk_home, runVars>>

NextChange == Next \/ EnvChange

SpecChange == InitChange /\ [][NextChange]_vars

\* ------------------------------------------------------------- properties
\* the build at position k of the log did not return exit code 0
BuildFailedAt(k) == buildLog[k].status # Some(0)

SomeBuildFailed == \E k \in 1..Len(buildLog) : BuildFailedAt(k)

\* every target of the list has been built, in order, with exit code 0
AllBuildsSucceeded ==
    /\ Len(buildLog) = Len(targets)
    /\ \A k \in 1..Len(buildLog) :
         buildLog[k].target = targets[k] /\ buildLog[k].status = Some(0)

Terminated == outcome # "running"

\* the process ends with exit code 0: exit(0), or run returns to main
EndsWithZero == outcome = "return" \/ (outcome = "exit" /\ exitCode = 0)

\* derive_ndk_path was called by run and returned None
KitNotFound == probes # <<>> /\ ndk_home = None

\* crate::meta::config returned an error
ConfigFailed == IsSome(ndk_home) /\ config = None /\ outcome = "exit"

\* the per-target destination directories created so far
SubDirs == {d \in dirs : Len(d) > 1}

CollectionStarted ==
    SubDirs # {} \/ listed # <<>> \/ copies # <<>> \/ strips # <<>>

\* C1: once a build has returned a non-zero exit code (or no code at all),
\* the build collaborator is not invoked again: a failed build is always the
\* last entry of the log of invocations.
C1_NoBuildAfterFailure ==
    \A k \in 1..Len(buildLog) : BuildFailedAt(k) => k = Len(buildLog)

C1_Witness ==
    /\ pc = "done"
    /\ buildLog # <<>>
    /\ BuildFailedAt(Len(buildLog))
    /\ Len(buildLog) < Len(targets)

\* C2: when the first failing build returned exit code c # 0, the process
\* has exited with exit code c.
C2_ExitCodeOfFirstFailure ==
    \A k \in 1..Len(buildLog) :
        ( /\ \A m \in 1..(k - 1) : buildLog[m].status = Some(0)
          /\ buildLog[k].status # None
          /\ buildLog[k].status # Some(0) )
        => (outcome = "exit" /\ exitCode = Unwrap(buildLog[k].status))

C2_Witness ==
    /\ Len(targets) = 2
    /\ targets[1] # targets[2]
    /\ Len(buildLog) = 2
    /\ buildLog[1].status = Some(0)
    /\ buildLog[2].status = Some(101)
    /\ outcome = "exit"
    /\ exitCode = 101

\* C3: a per-target destination directory is created, a build output
\* directory listed, a file copied or strip invoked only when an output
\* directory was requested and every target of the list has been built with
\* exit code 0; after a failed build none of these has happened.
C3_CollectionOnlyAfterAllBuilds ==
    /\ CollectionStarted => (IsSome(args.output_dir) /\ AllBuildsSucceeded)
    /\ SomeBuildFailed => ~CollectionStarted

C3_Witness ==
    /\ Len(targets) = 2
    /\ Len(copies) >= 2
    /\ Len(strips) >= 2
    /\ Cardinality(SubDirs) = 2

\* C4: a run in which no kit was found, the configuration failed or a build
\* failed never ends with exit code 0, and a return from run means that the
\* kit was found and every build succeeded.
C4_FailureExitsNonZero ==
    /\ (Terminated /\ (KitNotFound \/ ConfigFailed \/ SomeBuildFailed))
          => ~EndsWithZero
    /\ outcome = "return" => (IsSome(ndk_home) /\ AllBuildsSucceeded)

\* C5: when no kit was found or the configuration failed, the build
\* collaborator has not been invoked, nothing was copied and nothing stripped.
C5_NoBuildWithoutKitOrConfig ==
    (KitNotFound \/ ConfigFailed)
        => (buildLog = <<>> /\ copies = <<>> /\ strips = <<>>)

C5_Witness ==
    /\ Terminated
    /\ KitNotFound
    /\ args.target # <<>>

\* ---------------------------------------- properties of derive_ndk_path
Pre1 == IsSome(env["ANDROID_NDK_HOME"])
Pre2 == IsSome(env["NDK_HOME"])
Pre3 == /\ IsSome(env["ANDROID_SDK_HOME"])
        /\ Join(Unwrap(env["ANDROID_SDK_HOME"]), "ndk-bundle") \in existing
Pre4 == ndk_dir \in existing

\* the first strategy whose precondition holds, 5 when none does
FirstStrategy ==
    IF Pre1 THEN 1 ELSE IF Pre2 THEN 2 ELSE IF Pre3 THEN 3
    ELSE IF Pre4 THEN 4 ELSE 5

\* what a strategy consults
ProbesOf(k) ==
    CASE k = 1 -> {"var ANDROID_NDK_HOME"}
      [] k = 2 -> {"var NDK_HOME"}
      [] k = 3 -> {"var ANDROID_SDK_HOME", "exists ndk-bundle"}
      [] k = 4 -> {"exists ndk_dir", "read_dir ndk_dir"}
      [] k = 5 -> {}

StrategyOf(probe) == CHOOSE k \in 1..4 : probe \in ProbesOf(k)

\* the children of the ndk directory that its listing yields
Yielded == IF listing.ok THEN listing.entries \ listing.bad ELSE {}

\* the lexicographically greatest name of a non-empty set of names
Greatest(S) ==
    CHOOSE n \in S : \A m \in S \ {n} : BytesLess(Bytes(m), Bytes(n))

GreatestChild(S) == IF S = {} THEN None ELSE Some(Join(ndk_dir, Greatest(S)))

ResultOf(k) ==
    CASE k = 1 -> env["ANDROID_NDK_HOME"]
      [] k = 2 -> env["NDK_HOME"]
      [] k = 3 -> Some(Join(Unwrap(env["ANDROID_SDK_HOME"]), "ndk-bundle"))
      [] k = 4 -> GreatestChild(Yielded)
      [] k = 5 -> None

\* C6: derive_ndk_path consults its strategies in the order primary
\* variable, legacy variable, SDK root, default directory; it returns the
\* result of the first strategy whose precondition holds and consults
\* nothing that belongs to a later strategy.
C6_FirstStrategyWins ==
    pc = "returned" =>
        /\ ndk_home = ResultOf(FirstStrategy)
        /\ \A m \in 1..Len(probes) : StrategyOf(probes[m]) <= FirstStrategy
        /\ \A m \in 1..Len(probes) : \A n \in 1..m :
              StrategyOf(probes[n]) <= StrategyOf(probes[m])
        /\ \A k \in 1..3 : k <= FirstStrategy =>
              \E m \in 1..Len(probes) : StrategyOf(probes[m]) = k

C6_Witness ==
    /\ pc = "returned"
    /\ Pre1 /\ Pre2 /\ Pre3 /\ Pre4
    /\ env["ANDROID_NDK_HOME"] # env["NDK_HOME"]
    /\ ndk_home = env["ANDROID_NDK_HOME"]
    /\ probes = <<"var ANDROID_NDK_HOME">>

\* C7: a set primary variable is returned verbatim, else a set legacy
\* variable is, whether or not the path exists; with only the SDK root set,
\* <SDK root>/ndk-bundle is returned if it exists, and otherwise the default
\* directory is probed and decides the result.
C7_EnvVerbatimSdkVerified ==
    pc = "returned" =>
        /\ Pre1 => ndk_home = Some(Unwrap(env["ANDROID_NDK_HOME"]))
        /\ (~Pre1 /\ Pre2) => ndk_home = Some(Unwrap(env["NDK_HOME"]))
        /\ (~Pre1 /\ ~Pre2 /\ IsSome(env["ANDROID_SDK_HOME"])) =>
              LET path == Join(Unwrap(env["ANDROID_SDK_HOME"]), "ndk-bundle")
              IN  IF path \in existing
                  THEN ndk_home = Some(path)
                  ELSE /\ ndk_home # Some(path)
                       /\ \E m \in 1..Len(probes) : probes[m] = "exists ndk_dir"
                       /\ ndk_home = (IF Pre4 THEN GreatestChild(Yielded) ELSE None)

C7_Witness ==
    /\ pc = "returned"
    /\ ~Pre1 /\ ~Pre2
    /\ env["ANDROID_SDK_HOME"] = Some(<<"sdk">>)
    /\ <<"sdk", "ndk-bundle">> \notin existing
    /\ Pre4
    /\ ndk_home = Some(Join(ndk_dir, "9.0.0"))

\* the default directory strategy was reached
DefaultReached == ~Pre1 /\ ~Pre2 /\ ~Pre3

\* C8 as stated: at the default directory strategy, the greatest child of an
\* existing directory is returned, and absence when the directory does not
\* exist or has no children.
C8_GreatestChildOfDirectory ==
    (pc = "returned" /\ DefaultReached) =>
        /\ (Pre4 /\ listing.entries # {}) =>
              ndk_home = GreatestChild(listing.entries)
        /\ (~Pre4 \/ listing.entries = {}) => ndk_home = None

\* C8 amended: at the default directory strategy, the greatest of the
\* children that the listing of an existing directory yields is returned,
\* and absence when the directory does not exist, cannot be listed or its
\* listing yields no child.
C8_GreatestYieldedChild ==
    (pc = "returned" /\ DefaultReached) =>
        /\ (Pre4 /\ Yielded # {}) =>
              /\ IsSome(ndk_home)
              /\ \E n \in Yielded :
                    /\ ndk_home = Some(Join(ndk_dir, n))
                    /\ \A m \in Yielded \ {n} : BytesLess(Bytes(m), Bytes(n))
        /\ (~Pre4 \/ ~listing.ok \/ Yielded = {}) => ndk_home = None

C8_Witness ==
    /\ pc = "returned"
    /\ DefaultReached
    /\ Pre4
    /\ listing = [ok |-> TRUE, entries |-> {"21.0.0", "23.1.1", "22.0.0"},
                  bad |-> {}]
    /\ ndk_home = Some(Join(ndk_dir, "23.1.1"))

\* ------------------------------------------- properties of the resolution
\* the targets of the build invocations so far, in order
Built == [k \in 1..Len(buildLog) |-> buildLog[k].target]

IsPrefix(s, t) == Len(s) <= Len(t) /\ \A k \in 1..Len(s) : s[k] = t[k]

\* the build loop has run to its end
BuildLoopOver == pc \in {"collect", "copy"} \/ outcome = "return"

\* C9: once the configuration is loaded, the targets built are those of the
\* command line when it named any, whatever the configuration's targets, and
\* those of the configuration otherwise: the builds so far are a prefix of
\* that list and, when the build loop is over, the whole list.
C9_TargetsFromOneSource ==
    IsSome(config) =>
        LET expected == IF Len(args.target) >= 1 THEN args.target
                        ELSE Unwrap(config).targets
        IN  /\ IsPrefix(Built, expected)
            /\ BuildLoopOver => Built = expected

C9_Witness ==
    /\ IsSome(config)
    /\ BuildLoopOver
    /\ Len(args.target) = 2
    /\ Unwrap(config).targets # <<>>
    /\ Unwrap(config).targets[1] # args.target[1]
    /\ Built = args.target

\* C10: every build invocation is given the command line's platform level
\* when there is one, and the configuration's platform level otherwise.
C10_PlatformPrecedence ==
    \A k \in 1..Len(buildLog) :
        buildLog[k].platform =
            (IF args.platform # None THEN args.platform[1]
             ELSE Unwrap(config).platform)

C10_Witness ==
    /\ Len(buildLog) = 2
    /\ args.platform = Some(21)
    /\ Unwrap(config).platform = 16
    /\ buildLog[1].platform = 21
    /\ buildLog[2].platform = 21

\* ------------------------------------------------ properties of the loops
\* the build loop or the collection has been reached
LoopReached == pc \in {"build", "collect", "copy"} \/ buildLog # <<>>

\* C11: the target list is not empty when the build loop is reached; a
\* resolution that yields no target ends the run before the build loop and
\* before the collection.
C11_TargetsNeverEmpty ==
    (IsSome(config) /\ targets = <<>>) => (~LoopReached /\ ~CollectionStarted)

\* C12: no target is built twice in a run.
C12_TargetsDeduplicated ==
    \A k \in 1..Len(buildLog) : \A m \in 1..Len(buildLog) :
        buildLog[k].target = buildLog[m].target => k = m

\* C13: the destination directory <output dir>/<display name> of every
\* target whose collection has begun exists, whether or not anything was
\* found to copy for it, and a collection that found no .so file at all ends
\* the run by a plain return.
C13_SubdirWithoutArtifacts ==
    /\ \A k \in 1..Len(listed) :
          Join(Unwrap(args.output_dir), targets[k]) \in dirs
    /\ pc \in {"collect", "copy"} => Len(listed) >= j - 1
    /\ (cause = "finished" /\ IsSome(args.output_dir)) =>
          (outcome = "return" /\ Len(listed) = Len(targets))

C13_Witness ==
    /\ cause = "finished"
    /\ outcome = "return"
    /\ IsSome(args.output_dir)
    /\ Len(targets) = 2
    /\ copies = <<>>
    /\ Cardinality(SubDirs) = 2

\* the copies that succeeded, in order
RECURSIVE Succeeded(_)
Succeeded(cs) ==
    IF cs = <<>> THEN <<>>
    ELSE IF cs[1].ok THEN <<cs[1]>> \o Succeeded(Tail(cs))
    ELSE Succeeded(Tail(cs))

\* C14: a step in which strip fails goes on exactly as one in which it
\* succeeds: the run keeps running, the copy just made stays recorded with
\* the earlier ones, the file leaves the list of files still to copy, and the
\* loop moves to the next file or to the next target.
C14_StripFailureIgnored ==
    [][ (Len(strips') = Len(strips) + 1 /\ strip_failed')
          => /\ outcome' = "running"
             /\ Len(copies') = Len(copies) + 1
             /\ IsPrefix(copies, copies')
             /\ copies'[Len(copies')].ok
             /\ Cardinality(so_files') = Cardinality(so_files) - 1
             /\ IF so_files' = {}
                THEN pc' = "collect" /\ j' = j + 1
                ELSE pc' = "copy" /\ j' = j ]_vars

C14_Witness ==
    /\ strip_failed
    /\ cause = "finished"
    /\ outcome = "return"
    /\ Len(targets) = 2
    /\ Len(strips) = 4
    /\ Len(copies) = 4

\* C15: a failed copy is the last thing the run does: it ends by a panic,
\* strip is not invoked for that file and nothing is copied or stripped
\* afterwards; the strip invocations are exactly the destinations of the
\* copies that succeeded, in order.
C15_CopyFailureFatal ==
    /\ \A k \in 1..Len(copies) :
          ~copies[k].ok => (k = Len(copies) /\ outcome = "panic")
    /\ Len(strips) = Len(Succeeded(copies))
    /\ \A k \in 1..Len(strips) : strips[k].dest = Succeeded(copies)[k].dest

C15_Witness ==
    /\ outcome = "panic"
    /\ Len(copies) = 2
    /\ copies[1].ok
    /\ ~copies[2].ok
    /\ Len(strips) = 1
    /\ so_files # {}
    /\ j < Len(targets)

\* C16: a parse error ends the run by exit code 2 and a configuration error
\* by exit code 1, two different codes, neither of them 0, and no build has
\* been invoked in either case.
C16_ParseAndConfigCodes ==
    /\ cause = "parse" =>
          (outcome = "exit" /\ exitCode = 2 /\ buildLog = <<>>)
    /\ cause = "config" =>
          (outcome = "exit" /\ exitCode = 1 /\ buildLog = <<>>)
    /\ cause \in {"parse", "config"} => exitCode # 0

C16_Witness ==
    /\ cause = "parse"
    /\ outcome = "exit"
    /\ exitCode = 2
    /\ pc = "done"

\* the builds so far are those of the first targets of the list, in order,
\* each one after the one before it returned exit code 0
BuildsInOrder ==
    /\ \A k \in 1..Len(buildLog) :
          /\ buildLog[k].target = targets[k]
          /\ k > 1 => buildLog[k - 1].status = Some(0)
    /\ \/ Len(buildLog) = i - 1
       \/ Len(buildLog) = i /\ BuildFailedAt(i)
    /\ BuildLoopOver => Built = targets

\* C17: the builds follow the target list one position at a time: a step
\* adds at most one invocation, the invocation at position k is for the
\* k-th target and comes after the one at position k - 1 returned 0, and on
\* full success the invocations are the target list.
C17_SequentialInOrder ==
    [][ /\ BuildsInOrder'
        /\ buildLog' # buildLog =>
              (Len(buildLog') = Len(buildLog) + 1 /\ IsPrefix(buildLog, buildLog'))
      ]_vars

C17_Witness ==
    /\ BuildLoopOver
    /\ Len(targets) = 2
    /\ targets[1] # targets[2]
    /\ Built = targets
    /\ \A k \in 1..2 : buildLog[k].status = Some(0)

\* C19: with an output directory requested, it has been created by the
\* time the build loop is reached and so is there after a failed build; when
\* no kit was found or the configuration failed, no directory was created.
C19_OutputRootCreatedEarly ==
    /\ (IsSome(args.output_dir) /\ (LoopReached \/ cause \in {"build", "finished"}))
          => Unwrap(args.output_dir) \in dirs
    /\ (KitNotFound \/ ConfigFailed) => dirs = {}

C19_Witness ==
    /\ cause = "build"
    /\ Len(buildLog) = 1
    /\ IsSome(args.output_dir)
    /\ dirs = {Unwrap(args.output_dir)}

\* C20: a build output directory that cannot be listed ends the run by a
\* panic, after the destination directory of that target was created; the
\* copies made before are those of the earlier targets, all of them
\* succeeded and stripped, and no later target has a destination directory.
C20_ListFailureFatal ==
    \A k \in 1..Len(listed) :
        ~listed[k].ok =>
            /\ k = Len(listed)
            /\ k = j
            /\ outcome = "panic"
            /\ listed[k].dir = target_path(targets[k])
            /\ arch_output_dir(targets[k]) \in dirs
            /\ \A c \in 1..Len(copies) :
                  /\ copies[c].ok
                  /\ \E n \in 1..(k - 1) :
                        \E f \in FileNames :
                            copies[c].dest = Join(arch_output_dir(targets[n]), f)
            /\ Len(strips) = Len(copies)
            /\ \A m \in (k + 1)..Len(targets) :
                  (\A n \in 1..k : targets[n] # targets[m])
                      => arch_output_dir(targets[m]) \notin dirs

C20_Witness ==
    /\ outcome = "panic"
    /\ Len(targets) = 2
    /\ targets[1] # targets[2]
    /\ Len(listed) = 2
    /\ listed[1].ok
    /\ ~listed[2].ok
    /\ Len(copies) = 2
    /\ arch_output_dir(targets[2]) \in dirs

\* how many times derive_ndk_path was entered
RECURSIVE Lookups(_)
Lookups(ps) ==
    IF ps = <<>> THEN 0
    ELSE (IF ps[1] = "var ANDROID_NDK_HOME" THEN 1 ELSE 0) + Lookups(Tail(ps))

KitPathFixed ==
    /\ Lookups(probes) <= 1
    /\ (buildLog # <<>> \/ strips # <<>>) =>
          (Lookups(probes) = 1 /\ IsSome(ndk_home))
    /\ \A k \in 1..Len(buildLog) : buildLog[k].ndk_home = ndk_home
    /\ \A k \in 1..Len(strips) : strips[k].ndk_home = ndk_home

\* C18: the kit is looked up once, before the first build; after that
\* step neither the kit path nor the record of what was probed changes, and
\* every build and every strip is given that path, whatever becomes of the
\* environment and of the ndk directory meanwhile.
C18_KitPathResolvedOnce ==
    [][ /\ KitPathFixed'
        /\ pc # "kit" => UNCHANGED <<probes, ndk_home>> ]_vars

C18_Witness ==
    /\ env["ANDROID_NDK_HOME"] = None
    /\ ndk_dir \in existing
    /\ ndk_home = Some(<<"sdk">>)
    /\ Len(buildLog) = 2
    /\ buildLog[2].ndk_home = Some(<<"sdk">>)
    /\ Len(strips) >= 1
    /\ strips[Len(strips)].ndk_home = Some(<<"sdk">>)
====
